---- MODULE Spec2Model ----
(***************************************************************************)
(* PortableXE: the installer-extraction pipeline of src/PortableXE.py.     *)
(*                                                                         *)
(* The model covers ExtractionEngine (extract_installer, the four strategy *)
(* helpers, _validate_extraction, _cleanup_failed_extraction, cleanup),    *)
(* its caller in the GUI, PortableXE_GUI._create_portable_app_thread, and  *)
(* FileAnalyzer (detect_installer_type, analyze_pe_structure).             *)
(* The file system, the external tools and the progress callback are the   *)
(* environment: their outcomes are chosen nondeterministically at the step *)
(* that consults them.                                                     *)
(***************************************************************************)
EXTENDS Integers, Sequences, FiniteSets, TLC

(***************************************************************************)
(* Bounds of the model.                                                    *)
(***************************************************************************)
\* names tempfile.mkdtemp can hand out
NumRootNames == 2
Roots == 1..NumRootNames
\* Python's None where a root is expected (roots are numbered from 1)
None == 0
\* None as the value extract_installer returns
NoResult == << >>

(***************************************************************************)
(* File names are sequences of characters, so that startswith, endswith    *)
(* and lower are computed as Python computes them.                         *)
(***************************************************************************)
Lower(c) ==
  CASE c = "A" -> "a"
    [] c = "B" -> "b"
    [] c = "C" -> "c"
    [] c = "D" -> "d"
    [] c = "E" -> "e"
    [] c = "F" -> "f"
    [] c = "G" -> "g"
    [] c = "H" -> "h"
    [] c = "I" -> "i"
    [] c = "J" -> "j"
    [] c = "K" -> "k"
    [] c = "L" -> "l"
    [] c = "M" -> "m"
    [] c = "N" -> "n"
    [] c = "O" -> "o"
    [] c = "P" -> "p"
    [] c = "Q" -> "q"
    [] c = "R" -> "r"
    [] c = "S" -> "s"
    [] c = "T" -> "t"
    [] c = "U" -> "u"
    [] c = "V" -> "v"
    [] c = "W" -> "w"
    [] c = "X" -> "x"
    [] c = "Y" -> "y"
    [] c = "Z" -> "z"
    [] OTHER -> c

LowerName(n) == [i \in 1..Len(n) |-> Lower(n[i])]

StartsWith(n, p) == Len(n) >= Len(p) /\ SubSeq(n, 1, Len(p)) = p

EndsWith(n, s) == Len(n) >= Len(s) /\ SubSeq(n, Len(n) - Len(s) + 1, Len(n)) = s

\* line 425
pe_sections ==
  { <<".", "t", "e", "x", "t">>, <<".", "d", "a", "t", "a">>,
    <<".", "r", "d", "a", "t", "a">>, <<".", "b", "s", "s">>,
    <<".", "i", "d", "a", "t", "a">>, <<".", "e", "d", "a", "t", "a">>,
    <<".", "r", "s", "r", "c">> }

\* line 439
exe_suffixes ==
  { <<".", "e", "x", "e">>, <<".", "d", "l", "l">>, <<".", "s", "y", "s">> }

\* line 441
meaningful_suffixes ==
  { <<".", "e", "x", "e">>, <<".", "d", "l", "l">>, <<".", "t", "x", "t">>,
    <<".", "i", "n", "i">>, <<".", "c", "f", "g">>, <<".", "d", "a", "t">> }

\* line 429: more than this many section-named entries is a dissected PE
MaxPeSections == 3
\* line 444: more than this many meaningful files is accepted
MinMeaningful == 5

\* A directory tree is a set of paths below extract_dir; a path is a
\* sequence of names.  A path whose last name is empty stands for a
\* directory with nothing in it, every other path for a file.  os.listdir
\* gives the first components, os.walk the files.
listdir(paths) == { p[1] : p \in paths }

basename(p) == p[Len(p)]

walk_files(paths) == { p \in paths : basename(p) # << >> }

\* line 426
pe_section_count(paths) ==
  Cardinality({ f \in listdir(paths) : \E s \in pe_sections : StartsWith(f, s) })

\* an exe_count that looks at the files of the top directory only
exe_count_top_level(paths) ==
  Cardinality({ p \in walk_files(paths) :
      /\ Len(p) = 1
      /\ \E s \in exe_suffixes : EndsWith(LowerName(basename(p)), s) })

\* lines 437-440
exe_count(paths) ==
  Cardinality({ p \in walk_files(paths) :
      \E s \in exe_suffixes : EndsWith(LowerName(basename(p)), s) })

\* lines 437-442
meaningful_files(paths) ==
  Cardinality({ p \in walk_files(paths) :
      \E s \in meaningful_suffixes : EndsWith(LowerName(basename(p)), s) })

\* _validate_extraction content with five meaningful files
validate_extraction_five_suffice(exists, paths) ==
  IF ~exists THEN FALSE
  ELSE IF listdir(paths) = {} THEN FALSE
  ELSE IF pe_section_count(paths) > MaxPeSections THEN FALSE
  ELSE exe_count(paths) > 0 \/ meaningful_files(paths) >= MinMeaningful

\* _validate_extraction looking for executables before it counts the
\* section-named entries
validate_extraction_exe_first(exists, paths) ==
  IF ~exists THEN FALSE
  ELSE IF listdir(paths) = {} THEN FALSE
  ELSE IF exe_count(paths) > 0 THEN TRUE
  ELSE IF pe_section_count(paths) > MaxPeSections THEN FALSE
  ELSE meaningful_files(paths) > MinMeaningful

validate_extraction(exists, paths) ==
  IF ~exists THEN FALSE
  ELSE IF listdir(paths) = {} THEN FALSE
  ELSE IF pe_section_count(paths) > MaxPeSections THEN FALSE
  ELSE exe_count(paths) > 0 \/ meaningful_files(paths) > MinMeaningful

(***************************************************************************)
(* What a tool or a zip container can write into extract_dir.              *)
(***************************************************************************)
AppTree == { << <<"b", "i", "n">>, <<"a", "p", "p", ".", "E", "X", "E">> >> }

SectionDump ==
  { << <<".", "t", "e", "x", "t">> >>, << <<".", "d", "a", "t", "a">> >>,
    << <<".", "r", "d", "a", "t", "a">> >>, << <<".", "r", "s", "r", "c">> >> }

\* 7-Zip is the tool that opens a PE file as an archive of its sections; a
\* zip container can hold anything
OutputsOf(s) ==
  IF s \in { 2, 3 } THEN { {}, AppTree } ELSE { {}, AppTree, SectionDump }


(***************************************************************************)
(* FileAnalyzer.detect_installer_type.  A file is its base name, whether   *)
(* it can be opened, the signature strings it holds (each with the offset  *)
(* of its first byte) and its size.                                        *)
(***************************************************************************)
\* `p in n` of two strings
Contains(n, p) ==
  \E i \in 1..(Len(n) - Len(p) + 1) : SubSeq(n, i, i + Len(p) - 1) = p

\* lines 227-229
installer_patterns ==
  { <<"s", "e", "t", "u", "p">>,
    <<"i", "n", "s", "t", "a", "l", "l">>,
    <<"i", "n", "s", "t", "a", "l", "l", "e", "r">> }

\* line 237: f.read(8192)
ReadSize == 8192

\* line 265
LargeFileSize == 50 * 1024 * 1024

\* number of bytes of each signature string of lines 240-260
marker_len(m) ==
  CASE m = "Inno Setup" -> 10
    [] m = "InnoSetup" -> 9
    [] m = "NSIS" -> 4
    [] m = "Nullsoft" -> 8
    [] m = "!insertmacro" -> 12
    [] m = "InstallShield" -> 13
    [] m = "WiX" -> 3
    [] m = "Windows Installer" -> 17
    [] m = "This installation package" -> 25
    [] m = "Advanced Installer" -> 18

\* `b'...' in data`, data being the first ReadSize bytes of the file
in_data(f, m) ==
  \E o \in f.marks : o.m = m /\ o.at + marker_len(m) <= ReadSize

\* detect_installer_type testing for NSIS before Inno Setup
signature_checks_nsis_first ==
  << [markers |-> { "NSIS", "Nullsoft", "!insertmacro" }, family |-> "NSIS"],
     [markers |-> { "Inno Setup", "InnoSetup" }, family |-> "Inno Setup"],
     [markers |-> { "InstallShield" }, family |-> "InstallShield"],
     [markers |-> { "WiX", "Windows Installer" }, family |-> "WiX"],
     [markers |-> { "This installation package" },
      family |-> "Windows Installer"],
     [markers |-> { "Advanced Installer" }, family |-> "Advanced Installer"] >>

\* lines 240-261, in source order
signature_checks ==
  << [markers |-> { "Inno Setup", "InnoSetup" }, family |-> "Inno Setup"],
     [markers |-> { "NSIS", "Nullsoft", "!insertmacro" }, family |-> "NSIS"],
     [markers |-> { "InstallShield" }, family |-> "InstallShield"],
     [markers |-> { "WiX", "Windows Installer" }, family |-> "WiX"],
     [markers |-> { "This installation package" },
      family |-> "Windows Installer"],
     [markers |-> { "Advanced Installer" }, family |-> "Advanced Installer"] >>

\* index of the first `if` of lines 240-261 that matches, 0 if none does
first_signature(f) ==
  LET hits == { i \in 1..Len(signature_checks) :
                  \E m \in signature_checks[i].markers : in_data(f, m) }
  IN IF hits = {} THEN 0
     ELSE CHOOSE i \in hits : \A j \in hits : i <= j

\* a size test that counts a file of exactly 50 MiB as large
is_large_inclusive(size) == size >= LargeFileSize

\* line 265
is_large(size) == size > LargeFileSize

verdict_of(installer, type) == [is_installer |-> installer, type |-> type]

\* open() of line 236 raises for a file that cannot be opened; the except
\* clause of lines 270-272 answers (False, "Unknown")
detect_installer_type(f) ==
  IF \E p \in installer_patterns : Contains(LowerName(f.name), p)
  THEN verdict_of(TRUE, "Generic Installer")
  ELSE IF ~f.readable THEN verdict_of(FALSE, "Unknown")
  ELSE IF first_signature(f) # 0
  THEN verdict_of(TRUE, signature_checks[first_signature(f)].family)
  ELSE IF is_large(f.size)
  THEN verdict_of(TRUE, "Large Executable (Likely Installer)")
  ELSE verdict_of(FALSE, "Standalone Application")

(***************************************************************************)
(* FileAnalyzer.analyze_pe_structure.  A file is whether it can be opened, *)
(* its length, and the values of the header fields the function looks at;  *)
(* a field that lies beyond the end of the file is never consulted.        *)
(***************************************************************************)
Min(a, b) == IF a < b THEN a ELSE b

Max(a, b) == IF a > b THEN a ELSE b

\* number of bytes f.read(n) returns at position pos of a file of len bytes
read(len, pos, n) == Min(n, Max(0, len - pos))

\* lines 155-164
default_analysis ==
  [is_valid_pe |-> FALSE, is_installer |-> FALSE, installer_type |-> "unknown",
   architecture |-> "unknown", subsystem |-> "unknown", sections |-> << >>,
   imports |-> << >>, resources |-> << >>]

\* lines 190-195 (0x8664, 0x14c, 0x1c4)
architecture_of(machine) ==
  CASE machine = 34404 -> "x64"
    [] machine = 332 -> "x86"
    [] machine = 452 -> "ARM"
    [] OTHER -> "unknown"

\* lines 203-206
subsystem_of(code) ==
  CASE code = 2 -> "GUI"
    [] code = 3 -> "Console"
    [] OTHER -> "unknown"

\* how the body of the try block ends: by a return or by an exception,
\* with the analysis gathered so far
ended(by_exception, analysis) == [raised |-> by_exception, analysis |-> analysis]

\* lines 167-213.  struct.unpack raises on a slice shorter than its format.
pe_parse(f) ==
  LET dos == read(f.len, 0, 64)
      sig == read(f.len, f.lfanew, 4)
      coff == read(f.len, f.lfanew + 4, 20)
      opt == IF f.optsize > 0
             THEN read(f.len, f.lfanew + 4 + coff, f.optsize) ELSE 0
      headers == read(f.len, f.lfanew + 4 + coff + opt, 40 * f.nsec) \div 40
      a1 == [default_analysis EXCEPT !.is_valid_pe = TRUE]
      a2 == [a1 EXCEPT !.architecture = architecture_of(f.machine)]
      a3 == IF f.optsize > 0 /\ opt >= 68
            THEN [a2 EXCEPT !.subsystem = subsystem_of(f.subsys)] ELSE a2
      a4 == [a3 EXCEPT !.sections = SubSeq(f.names, 1, headers)]
  IN IF ~f.readable THEN ended(TRUE, default_analysis)
     ELSE IF dos < 2 \/ ~f.mz THEN ended(FALSE, default_analysis)
     ELSE IF dos < 64 THEN ended(TRUE, default_analysis)
     ELSE IF sig < 4 \/ ~f.sig_ok THEN ended(FALSE, default_analysis)
     ELSE IF coff < 4 THEN ended(TRUE, a1)
     ELSE IF coff < 18 THEN ended(TRUE, a2)
     ELSE IF f.optsize > 0 /\ opt >= 68 /\ opt < 70 THEN ended(TRUE, a2)
     ELSE ended(FALSE, a4)

\* an except clause that lets the exception go on to the caller
except_clause_reraises(analysis) == ended(TRUE, analysis)

\* an except clause that answers the defaults whatever was gathered
except_clause_resets(analysis) == ended(FALSE, default_analysis)

\* lines 215-218: the exception is logged and the analysis gathered so far
\* is returned
except_clause(analysis) == ended(FALSE, analysis)

analyze_pe_structure(f) ==
  LET body == pe_parse(f)
  IN IF body.raised THEN except_clause(body.analysis) ELSE body

\* a worker that consulted analyze_pe_structure before extracting
runs_extraction_of_valid_pe_only(f) ==
  detect_installer_type(f).is_installer /\ analyze_pe_structure(f).analysis.is_valid_pe

\* lines 1473-1479 of _create_portable_app_thread: the extraction chain is
\* run on the input exactly when detect_installer_type calls it an installer
runs_extraction(f) == detect_installer_type(f).is_installer

\* the input files of the worker: one whose name says installer and whose
\* first bytes are not MZ, and a small well-formed application
WorkerInputs ==
  { [name |-> <<"s", "e", "t", "u", "p", ".", "b", "i", "n">>, readable |-> TRUE,
     marks |-> {}, size |-> 16384, len |-> 16384, mz |-> FALSE, lfanew |-> 64,
     sig_ok |-> FALSE, machine |-> 332, nsec |-> 2, optsize |-> 224,
     subsys |-> 2, names |-> << ".text", ".rsrc" >>],
    [name |-> <<"a", "p", "p", ".", "e", "x", "e">>, readable |-> TRUE,
     marks |-> {}, size |-> 16384, len |-> 16384, mz |-> TRUE, lfanew |-> 64,
     sig_ok |-> TRUE, machine |-> 332, nsec |-> 2, optsize |-> 224,
     subsys |-> 2, names |-> << ".text", ".rsrc" >>] }

(***************************************************************************)
(* PortableXEConfig: the three strategy flags of the Extraction section.   *)
(* A key the loaded file does not hold is Absent.                          *)
(***************************************************************************)
Absent == "<absent>"
CfgValues == { "true", "false", Absent }
CfgKeys == { "use_7zip", "use_innoextract", "use_msi_extract" }

\* PortableXEConfig.create_default_config: the Extraction section
create_default_config == [k \in CfgKeys |-> "true"]

\* PortableXEConfig.get(section, key, fallback)
config_get(cfg, key, fallback) == IF cfg[key] = Absent THEN fallback ELSE cfg[key]

(***************************************************************************)
(* The strategy chain of extract_installer, in source order.               *)
(***************************************************************************)
SevenZip == 1
InnoExtract == 2
Msi == 3
Universal == 4
Strategies == { SevenZip, InnoExtract, Msi, Universal }

\* the conditions that guard the four blocks of extract_installer
strategy_enabled(s, cfg, is_msi) ==
  CASE s = SevenZip -> config_get(cfg, "use_7zip", "") = "true"
    [] s = InnoExtract -> config_get(cfg, "use_innoextract", "") = "true"
    [] s = Msi -> is_msi /\ config_get(cfg, "use_msi_extract", "") = "true"
    [] s = Universal -> TRUE

\* extract_installer reporting the MSI block at the fraction 0.3
strategy_fraction_msi_early(s) == IF s = 3 THEN 3 ELSE 2 * s

\* fraction * 10 passed to progress_callback by each block
strategy_fraction(s) == 2 * s

\* message passed to progress_callback by each block
strategy_message(s) ==
  CASE s = SevenZip -> "Trying 7-Zip extraction..."
    [] s = InnoExtract -> "Trying Inno Setup extraction..."
    [] s = Msi -> "Trying MSI extraction..."
    [] s = Universal -> "Trying universal extraction methods..."

\* a call progress_callback(message, fraction), the fraction times 10
notice(message, tenths) == [msg |-> message, frac |-> tenths]

strategy_notice(s) == notice(strategy_message(s), strategy_fraction(s))

\* line 344
completion_notice == notice("Extraction completed", 10)

\* extract_dir is the set of file paths below it; a tool that writes a path
\* that exists overwrites it (7z -y, extractall)
paths(dir) == dir

write_files(dir, out) == dir \cup out

Exits == { "exit0", "nonzero", "timeout" }

\* Return value of a helper: "True", "False", or "raise" when an exception
\* leaves the helper.
PyBool(b) == IF b THEN "True" ELSE "False"

\* The body the three tool-backed helpers share.  found: the tool was
\* located (for msiexec: the process could be spawned); dir: extract_dir
\* after the tool ran.  subprocess.run raises TimeoutExpired on a timeout,
\* which the helper's except turns into False.
subprocess_helper(found, exit, dir) ==
  IF ~found THEN "False"
  ELSE IF exit = "timeout" THEN "False"
  ELSE PyBool(exit = "exit0" /\ Cardinality(listdir(paths(dir))) > 0)

\* _extract_with_7zip without the except clause for TimeoutExpired
extract_with_7zip_timeout_raises(found, exit, dir) ==
  IF found /\ exit = "timeout" THEN "raise"
  ELSE subprocess_helper(found, exit, dir)

extract_with_7zip(found, exit, dir) == subprocess_helper(found, exit, dir)

extract_with_innoextract(found, exit, dir) == subprocess_helper(found, exit, dir)

extract_msi(found, exit, dir) == subprocess_helper(found, exit, dir)

tool_helper(s, found, exit, dir) ==
  CASE s = SevenZip -> extract_with_7zip(found, exit, dir)
    [] s = InnoExtract -> extract_with_innoextract(found, exit, dir)
    [] s = Msi -> extract_msi(found, exit, dir)

ZipKinds == { "notzip", "ok", "partial" }

\* _extract_universal: zipfile raises on a non-zip or midway ("partial")
extract_universal(kind, dir) ==
  IF kind = "ok" THEN PyBool(Cardinality(listdir(paths(dir))) > 0) ELSE "False"

\* extract_installer giving up at the first helper that returns False
after_helper_gives_up(s, ret) ==
  IF ret = "raise" THEN "except"
  ELSE IF ret = "True" THEN "validate"
  ELSE "all_failed"

\* where extract_installer goes after a helper returned
after_helper(s, ret) ==
  IF ret = "raise" THEN "except"
  ELSE IF ret = "True" THEN "validate"
  ELSE IF s < Universal THEN "next"
  ELSE "all_failed"

\* extract_installer returning the directory whatever the validator said
after_validate_unchecked(s, accepted) == "return_dir"

\* extract_installer without the `return extract_dir` of the first three
\* blocks: an accepted result is treated like a rejected one
after_validate_falls_through(s, accepted) ==
  IF s < Universal THEN "cleanup"
  ELSE IF accepted THEN "return_dir"
  ELSE "all_failed"

\* where extract_installer goes after _validate_extraction returned
after_validate(s, accepted) ==
  IF accepted THEN "return_dir"
  ELSE IF s < Universal THEN "cleanup"
  ELSE "all_failed"


\* a session that is given the extract_dir of the session before it
new_extract_dir_reused(old) == old

\* lines 283-285: mkdtemp makes a new directory and makedirs an empty
\* `extracted` in it, whatever the last session's directory holds
new_extract_dir(old) == {}

\* an extract_installer that removes the session's root whenever it returns
roots_at_return_removed(roots, root, res) == roots \ { root }

\* extract_installer removing its temp root when it returns None
roots_at_return_autoclean(roots, root, res) ==
  IF res = << >> THEN roots \ { root } ELSE roots

\* lines 335-344: neither the returns, the except clause nor the finally
\* clause of extract_installer removes a temp root
roots_at_return(roots, root, res) == roots


VARIABLES
  caller,       \* who drives the engine: the GUI worker or a direct client
  config,       \* PortableXEConfig.config, Extraction flags
  disk,         \* temp roots that exist on disk
  temp_dir,     \* ExtractionEngine.temp_dir
  epc,          \* position inside extract_installer
  strat,        \* strategy block extract_installer is in
  is_msi,       \* installer_path.lower().endswith('.msi')
  cb,           \* progress_callback: "none", "ok" or "raises"
  xdir,         \* contents of extract_dir of the current session
  result,       \* value extract_installer returns
  exit_of,      \* this run: how each strategy's tool ended
  ret_of,       \* this run: what each strategy's helper returned
  verdict,      \* this run: what the validator said of each strategy
  started,      \* this run: strategies begun, in order
  dirty_start,  \* this run: strategies begun on a non-empty extract_dir
  progress,     \* this run: the calls of progress_callback, in order
  cb_raised,    \* this run: the progress callback has raised
  rm_failed,    \* the rmtree of the last cleanup() raised
  wpc,          \* position inside _create_portable_app_thread
  engine,       \* the worker's local extraction_engine is set
  source,       \* the worker's source_path: "input" or "extracted"
  is_standalone,\* the worker's is_standalone
  exit_path,    \* how the worker's try block ended
  cleanup_calls,\* cleanup() calls made by the current worker run
  button,       \* the create button: "disabled", "normal", or
                \* "enable_pending" when the call that enables it is
                \* scheduled on the main loop and has not run yet
  lingering,    \* << r >> while an earlier worker, overtaken by a new one,
                \* has its cleanup of root r (None: nothing to clean) still
                \* to do; << >> otherwise
  config_at_start, \* the configuration as it was when the run began
  tool_behaviour, \* for a caller whose tools are deterministic: what each
                \* tool, and each rmtree of a rejected output, did so far
  run_no,       \* sessions opened so far by the caller that runs twice
  first,        \* that caller's record of the outcome of its first run
  fn,           \* the function a caller of a pure function calls
  arg,          \* the argument of that call
  retval        \* what the call returned, once it has

hvars == << exit_of, ret_of, verdict, started, dirty_start, progress,
            cb_raised >>
evars == << disk, temp_dir, epc, strat, is_msi, cb, xdir, result, hvars,
            rm_failed, tool_behaviour, config_at_start >>
wvars == << wpc, engine, source, is_standalone, exit_path, cleanup_calls,
            button, lingering >>
\* what no step of the engine or of the worker changes
cvars == << caller, config, run_no, first, fn, arg, retval >>
vars == << cvars, evars, wvars >>

NoneOf == [s \in Strategies |-> "none"]

\* os.path.join(self.temp_dir, "extracted")
extract_dir == << temp_dir, "extracted" >>

Unset == [s \in Strategies |-> << >>]

\* a new ExtractionEngine and a worker that has not started
Idle ==
  /\ disk = {}
  /\ temp_dir = None
  /\ epc = "idle"
  /\ strat = 0
  /\ is_msi = FALSE
  /\ cb = "none"
  /\ xdir = {}
  /\ result = NoResult
  /\ exit_of = NoneOf
  /\ ret_of = NoneOf
  /\ verdict = NoneOf
  /\ started = << >>
  /\ dirty_start = {}
  /\ progress = << >>
  /\ cb_raised = FALSE
  /\ rm_failed = FALSE
  /\ tool_behaviour = [tool |-> Unset, rm |-> Unset]
  /\ config_at_start = config
  /\ wpc = "idle"
  /\ engine = FALSE
  /\ source = "input"
  /\ is_standalone = FALSE
  /\ exit_path = "none"
  /\ cleanup_calls = 0
  /\ button = "disabled"
  /\ lingering = << >>
  /\ run_no = 0
  /\ first = << >>

NoCall ==
  /\ fn = "none"
  /\ arg = << >>
  /\ retval = << >>

Init ==
  /\ caller \in { "worker", "client" }
  /\ config \in [CfgKeys -> CfgValues]
  /\ Idle
  /\ NoCall

\* The caller that runs extract_installer twice has deterministic tools:
\* a tool, or the rmtree of a strategy's rejected output, that is consulted
\* again does what it did before.
deterministic == caller = "twice"

Allowed(key, s, b) ==
  deterministic => tool_behaviour[key][s] \in { << >>, << b >> }

Learn(key, s, b) ==
  IF deterministic THEN [tool_behaviour EXCEPT ![key][s] = << b >>]
  ELSE tool_behaviour

(***************************************************************************)
(* ExtractionEngine.extract_installer                                      *)
(***************************************************************************)

\* Lines 283-285, run by the caller's call.  mkdtemp is outside the try
\* block, so its failure leaves extract_installer as an exception.
open_session(msi, cbk) ==
  /\ epc \in { "idle", "returned", "raised" }
  /\ is_msi' = msi
  /\ cb' = cbk
  /\ result' = NoResult
  /\ exit_of' = NoneOf
  /\ ret_of' = NoneOf
  /\ verdict' = NoneOf
  /\ started' = << >>
  /\ dirty_start' = {}
  /\ progress' = << >>
  /\ cb_raised' = FALSE
  /\ rm_failed' = FALSE
  /\ xdir' = new_extract_dir(xdir)
  /\ UNCHANGED tool_behaviour
  /\ config_at_start' = config
  /\ \/ \* tempfile.mkdtemp raises
        /\ epc' = "raised"
        /\ strat' = 0
        /\ UNCHANGED << disk, temp_dir >>
     \/ \* mkdtemp creates a directory that did not exist
        \E r \in Roots \ disk :
          /\ disk' = disk \cup { r }
          /\ temp_dir' = r
          /\ epc' = "gate"
          /\ strat' = SevenZip

\* The `if` that guards a strategy block and the progress notification that
\* opens it (lines 291-293, 303-305, 315-317, 327-328).  An exception of the
\* callback is caught by the except clause of line 338, which returns None.
strategy_gate ==
  /\ epc = "gate"
  /\ UNCHANGED << disk, temp_dir, is_msi, cb, xdir, exit_of, ret_of, verdict,
                  started, dirty_start, rm_failed, tool_behaviour, config_at_start >>
  /\ IF ~strategy_enabled(strat, config, is_msi)
     THEN /\ strat' = strat + 1
          /\ UNCHANGED << epc, result, progress, cb_raised >>
     ELSE \/ /\ cb = "none"
             /\ epc' = "run"
             /\ UNCHANGED << strat, result, progress, cb_raised >>
          \/ /\ cb \in { "ok", "raises" }
             /\ progress' = Append(progress, strategy_notice(strat))
             /\ epc' = "run"
             /\ UNCHANGED << strat, result, cb_raised >>
          \/ /\ cb = "raises"
             /\ cb_raised' = TRUE
             /\ epc' = "finally"
             /\ result' = NoResult
             /\ UNCHANGED << strat, progress >>

\* what extract_installer does with the value a helper returned
helper_returned(ret) ==
  LET to == after_helper(strat, ret)
  IN /\ epc' = CASE to = "validate" -> "validate"
                 [] to = "next" -> "gate"
                 [] OTHER -> "finally"
     /\ strat' = IF to = "next" THEN strat + 1 ELSE strat
     /\ result' = NoResult
     /\ ret_of' = [ret_of EXCEPT ![strat] = ret]
     /\ started' = Append(started, strat)
     /\ dirty_start' = IF xdir # {} THEN dirty_start \cup { strat }
                       ELSE dirty_start

\* _extract_with_7zip, _extract_with_innoextract, _extract_msi
run_tool ==
  /\ epc = "run"
  /\ strat \in { SevenZip, InnoExtract, Msi }
  /\ UNCHANGED << disk, temp_dir, is_msi, cb, progress, cb_raised, verdict,
                  rm_failed >>
  /\ \/ \* the tool is not located (msiexec: cannot be spawned); nothing runs
        /\ Allowed("tool", strat, << "missing", {} >>)
        /\ tool_behaviour' = Learn("tool", strat, << "missing", {} >>)
        /\ UNCHANGED config_at_start
        /\ exit_of' = [exit_of EXCEPT ![strat] = "missing"]
        /\ helper_returned(tool_helper(strat, FALSE, "missing", xdir))
        /\ UNCHANGED xdir
     \/ \* the tool runs, writes files, and exits or is ended by the timeout
        \E exit \in Exits, out \in OutputsOf(strat) :
          LET dir == write_files(xdir, out)
          IN /\ Allowed("tool", strat, << exit, out >>)
             /\ tool_behaviour' = Learn("tool", strat, << exit, out >>)
             /\ UNCHANGED config_at_start
             /\ xdir' = dir
             /\ exit_of' = [exit_of EXCEPT ![strat] = exit]
             /\ helper_returned(tool_helper(strat, TRUE, exit, dir))

\* _extract_universal
run_universal ==
  /\ epc = "run"
  /\ strat = Universal
  /\ UNCHANGED << disk, temp_dir, is_msi, cb, progress, cb_raised, verdict,
                  rm_failed >>
  /\ \E kind \in ZipKinds, out \in OutputsOf(strat) :
       LET dir == IF kind = "notzip" THEN xdir ELSE write_files(xdir, out)
       IN /\ kind = "notzip" => out = {}
          /\ Allowed("tool", strat, << kind, out >>)
          /\ tool_behaviour' = Learn("tool", strat, << kind, out >>)
          /\ UNCHANGED config_at_start
          /\ xdir' = dir
          /\ exit_of' = [exit_of EXCEPT ![strat] = kind]
          /\ helper_returned(extract_universal(kind, dir))

\* the call of _validate_extraction after a helper returned True
validate_step ==
  /\ epc = "validate"
  /\ UNCHANGED << disk, temp_dir, is_msi, cb, xdir, exit_of, ret_of, started,
                  dirty_start, progress, cb_raised, rm_failed, strat,
                  tool_behaviour, config_at_start >>
  /\ LET accepted == validate_extraction(temp_dir \in disk, paths(xdir))
         to == after_validate(strat, accepted)
     IN /\ verdict' = [verdict EXCEPT ![strat] =
                         IF accepted THEN "accepted" ELSE "rejected"]
        /\ epc' = IF to = "cleanup" THEN "cleanup" ELSE "finally"
        /\ result' = IF to = "return_dir" THEN extract_dir ELSE NoResult

\* _cleanup_failed_extraction: rmtree and makedirs; an exception of rmtree is
\* swallowed and leaves the directory as it is
cleanup_failed_extraction ==
  /\ epc = "cleanup"
  /\ epc' = "gate"
  /\ strat' = strat + 1
  /\ UNCHANGED << disk, temp_dir, is_msi, cb, result, hvars, rm_failed >>
  /\ \/ /\ Allowed("rm", strat, "ok")
        /\ tool_behaviour' = Learn("rm", strat, "ok")
        /\ UNCHANGED config_at_start
        /\ xdir' = {}
     \/ /\ Allowed("rm", strat, "raises")
        /\ tool_behaviour' = Learn("rm", strat, "raises")
        /\ UNCHANGED config_at_start
        /\ UNCHANGED xdir

\* the finally clause (lines 342-344) and the return
finally_step ==
  /\ epc = "finally"
  /\ disk' = roots_at_return(disk, temp_dir, result)
  /\ UNCHANGED << temp_dir, is_msi, cb, xdir, exit_of, ret_of, verdict,
                  started, dirty_start, rm_failed, strat, tool_behaviour, config_at_start >>
  /\ \/ /\ cb = "none"
        /\ epc' = "returned"
        /\ UNCHANGED << result, progress, cb_raised >>
     \/ /\ cb \in { "ok", "raises" }
        /\ progress' = Append(progress, completion_notice)
        /\ epc' = "returned"
        /\ UNCHANGED << result, cb_raised >>
     \/ \* the callback raises inside finally: the exception replaces the return
        /\ cb = "raises"
        /\ cb_raised' = TRUE
        /\ epc' = "raised"
        /\ result' = NoResult
        /\ UNCHANGED progress

\* ExtractionEngine.cleanup
cleanup ==
  IF temp_dir # None /\ temp_dir \in disk
  THEN \/ /\ disk' = disk \ { temp_dir }
          /\ xdir' = {}
          /\ rm_failed' = FALSE
       \/ \* shutil.rmtree raises; the exception is logged
          /\ rm_failed' = TRUE
          /\ UNCHANGED << disk, xdir >>
  ELSE /\ rm_failed' = FALSE
       /\ UNCHANGED << disk, xdir >>

engine_step ==
  /\ \/ strategy_gate
     \/ run_tool
     \/ run_universal
     \/ validate_step
     \/ cleanup_failed_extraction
     \/ finally_step
  /\ UNCHANGED << cvars, wvars >>

(***************************************************************************)
(* A client that uses one ExtractionEngine directly.                       *)
(***************************************************************************)
client_extract ==
  /\ caller = "client"
  /\ \E msi \in BOOLEAN, cbk \in { "none", "raises" } : open_session(msi, cbk)
  /\ UNCHANGED << cvars, wvars >>

client_cleanup ==
  /\ caller = "client"
  /\ epc \in { "idle", "returned", "raised" }
  /\ cleanup
  /\ UNCHANGED << cvars, wvars, temp_dir, epc, strat, is_msi, cb,
                  result, hvars, tool_behaviour, config_at_start >>

(***************************************************************************)
(* PortableXE_GUI._create_portable_app_thread                              *)
(***************************************************************************)

\* cleanup() called at the end of the try block instead of in finally
finally_cleans_after_build_only(eng, path) == eng /\ path = "built"

\* line 1522: `if extraction_engine:` inside finally
finally_cleans(eng, path) == eng

\* a worker that keeps is_standalone False after a failed extraction
build_plan_keeps_flag(res) ==
  IF res # NoResult
  THEN [source |-> "extracted", is_standalone |-> FALSE]
  ELSE [source |-> "input", is_standalone |-> FALSE]

\* lines 1488-1495: what is built from after extract_installer returned
build_plan(res) ==
  IF res # NoResult
  THEN [source |-> "extracted", is_standalone |-> FALSE]
  ELSE [source |-> "input", is_standalone |-> TRUE]

\* lines 1469-1481: detect_installer_type, then a new ExtractionEngine
thread_start ==
  /\ caller = "worker"
  /\ wpc = "idle"
  /\ \E input_file \in WorkerInputs :
     LET is_installer == runs_extraction(input_file)
     IN
       /\ engine' = is_installer
       /\ temp_dir' = IF is_installer THEN None ELSE temp_dir
       /\ is_standalone' = ~is_installer
       /\ wpc' = IF is_installer THEN "extract" ELSE "build"
  /\ source' = "input"
  /\ exit_path' = "none"
  /\ cleanup_calls' = 0
  /\ UNCHANGED << cvars, disk, epc, strat, is_msi, cb, xdir, result,
                  hvars, rm_failed, tool_behaviour, config_at_start,
                  button, lingering >>

\* line 1486: the call of extract_installer with the GUI's callback
thread_extract ==
  /\ wpc = "extract"
  /\ \E msi \in BOOLEAN : open_session(msi, "ok")
  /\ wpc' = "extracting"
  /\ UNCHANGED << cvars, engine, source, is_standalone, exit_path,
                  cleanup_calls, button, lingering >>

\* lines 1488-1495; an exception of extract_installer goes to line 1514
thread_after_extract ==
  /\ wpc = "extracting"
  /\ \/ /\ epc = "returned"
        /\ source' = build_plan(result).source
        /\ is_standalone' = build_plan(result).is_standalone
        /\ wpc' = "build"
        /\ UNCHANGED exit_path
     \/ /\ epc = "raised"
        /\ wpc' = "except"
        /\ exit_path' = "extract_raised"
        /\ UNCHANGED << source, is_standalone >>
  /\ UNCHANGED << cvars, evars, engine, cleanup_calls, button, lingering >>

\* lines 1497-1512: build_portable_app returns or raises
thread_build ==
  /\ wpc = "build"
  /\ \/ /\ wpc' = "finally"
        /\ exit_path' = "built"
     \/ /\ wpc' = "except"
        /\ exit_path' = "build_raised"
  /\ UNCHANGED << cvars, evars, engine, source, is_standalone,
                  cleanup_calls, button, lingering >>

\* lines 1514-1518
thread_except ==
  /\ wpc = "except"
  /\ wpc' = "finally"
  /\ UNCHANGED << cvars, evars, engine, source, is_standalone,
                  exit_path, cleanup_calls, button, lingering >>

\* line 1521: the finally clause first schedules, with after(0, ...), the
\* call that enables the create button
thread_finally ==
  /\ wpc = "finally"
  /\ wpc' = "cleanup"
  /\ button' = "enable_pending"
  /\ UNCHANGED << cvars, evars, engine, source, is_standalone, exit_path,
                  cleanup_calls, lingering >>

\* lines 1522-1523: then it calls cleanup() if an engine was created, and
\* the worker ends
thread_cleanup ==
  /\ wpc = "cleanup"
  /\ wpc' = "done"
  /\ IF finally_cleans(engine, exit_path)
     THEN /\ cleanup
          /\ cleanup_calls' = cleanup_calls + 1
     ELSE UNCHANGED << disk, xdir, rm_failed, cleanup_calls >>
  /\ UNCHANGED << cvars, temp_dir, epc, strat, is_msi, cb, result,
                  hvars, engine, source, is_standalone, exit_path,
                  tool_behaviour, config_at_start, button, lingering >>

\* the main loop runs the call scheduled at line 1521
enable_button ==
  /\ button = "enable_pending"
  /\ button' = "normal"
  /\ UNCHANGED << cvars, evars, wpc, engine, source, is_standalone,
                  exit_path, cleanup_calls, lingering >>

\* an overtaken worker does its cleanup(): rmtree removes its root or
\* raises, and the worker ends
lingering_cleanup ==
  /\ lingering # << >>
  /\ lingering' = << >>
  /\ \/ disk' = disk \ { lingering[1] }
     \/ lingering[1] \in disk /\ UNCHANGED disk
  /\ UNCHANGED << cvars, temp_dir, epc, strat, is_msi, cb, xdir, result,
                  hvars, rm_failed, tool_behaviour, config_at_start, wpc,
                  engine, source, is_standalone, exit_path, cleanup_calls,
                  button >>

\* create_portable_app, which the enabled button calls: the button is
\* disabled (line 1454) and a new worker is started (lines 1461-1466), from
\* scratch (the records of the earlier run are dropped).  The earlier
\* worker has ended, or has its cleanup still to do; no click is followed
\* while two workers are alive.
create_portable_app ==
  /\ button = "normal"
  /\ wpc \in { "cleanup", "done" }
  /\ lingering = << >>
  /\ button' = "disabled"
  /\ lingering' = IF wpc = "done" THEN << >>
                  ELSE IF finally_cleans(engine, exit_path) THEN << temp_dir >>
                  ELSE << None >>
  /\ wpc' = "idle"
  /\ epc' = "idle"
  /\ strat' = 0
  /\ is_msi' = FALSE
  /\ cb' = "none"
  /\ xdir' = {}
  /\ result' = NoResult
  /\ exit_of' = NoneOf
  /\ ret_of' = NoneOf
  /\ verdict' = NoneOf
  /\ started' = << >>
  /\ dirty_start' = {}
  /\ progress' = << >>
  /\ cb_raised' = FALSE
  /\ rm_failed' = FALSE
  /\ engine' = FALSE
  /\ source' = "input"
  /\ is_standalone' = FALSE
  /\ exit_path' = "none"
  /\ cleanup_calls' = 0
  /\ UNCHANGED << cvars, disk, temp_dir, tool_behaviour, config_at_start >>

Next ==
  \/ engine_step
  \/ client_extract
  \/ client_cleanup
  \/ thread_start
  \/ thread_extract
  \/ thread_after_extract
  \/ thread_build
  \/ thread_except
  \/ thread_finally
  \/ thread_cleanup
  \/ enable_button
  \/ lingering_cleanup
  \/ create_portable_app

Spec == Init /\ [][Next]_vars

(***************************************************************************)
(* A caller that runs extract_installer twice on the same input, each run  *)
(* in its own session, with a well-behaved callback and tools that do the  *)
(* same thing each time; it may call cleanup() between the runs.           *)
(***************************************************************************)
\* what the caller keeps of a finished run
outcome ==
  [ok |-> result # NoResult,
   via |-> IF result # NoResult THEN started[Len(started)] ELSE 0,
   tree |-> IF result # NoResult THEN xdir ELSE {}]

twice_first ==
  /\ caller = "twice"
  /\ run_no = 0
  /\ \E msi \in BOOLEAN : open_session(msi, "ok")
  /\ epc' = "gate"
  /\ run_no' = 1
  /\ UNCHANGED << caller, config, first, fn, arg, retval, wvars >>

twice_between ==
  /\ caller = "twice"
  /\ run_no = 1
  /\ epc = "returned"
  /\ first = << >>
  /\ first' = << outcome >>
  /\ UNCHANGED << caller, config, run_no, fn, arg, retval, evars, wvars >>

twice_cleanup ==
  /\ caller = "twice"
  /\ run_no = 1
  /\ first # << >>
  /\ temp_dir \in disk
  /\ cleanup
  /\ UNCHANGED << cvars, wvars, temp_dir, epc, strat, is_msi, cb, result,
                  hvars, tool_behaviour, config_at_start >>

twice_second ==
  /\ caller = "twice"
  /\ run_no = 1
  /\ first # << >>
  /\ open_session(is_msi, "ok")
  /\ epc' = "gate"
  /\ run_no' = 2
  /\ UNCHANGED << caller, config, first, fn, arg, retval, wvars >>

InitTwice ==
  /\ caller = "twice"
  /\ config \in [CfgKeys -> CfgValues]
  /\ Idle
  /\ NoCall

NextTwice ==
  \/ engine_step
  \/ twice_first
  \/ twice_between
  \/ twice_cleanup
  \/ twice_second

SpecTwice == InitTwice /\ [][NextTwice]_vars

(***************************************************************************)
(* A caller whose extract_installer run is concurrent with calls of        *)
(* PortableXEConfig.set on the configuration object the engine was given.  *)
(***************************************************************************)
\* PortableXEConfig.set(section, key, value)
config_set ==
  /\ caller = "setter"
  /\ \E k \in CfgKeys, v \in { "true", "false" } :
       config' = [config EXCEPT ![k] = v]
  /\ UNCHANGED << caller, run_no, first, fn, arg, retval, evars, wvars >>

setter_extract ==
  /\ caller = "setter"
  /\ epc = "idle"
  /\ \E msi \in BOOLEAN : open_session(msi, "none")
  /\ UNCHANGED << cvars, wvars >>

InitSet ==
  /\ caller = "setter"
  /\ config = create_default_config
  /\ Idle
  /\ NoCall

NextSet ==
  \/ engine_step
  \/ setter_extract
  \/ config_set

SpecSet == InitSet /\ [][NextSet]_vars

(***************************************************************************)
(* A caller of one of the functions that only read their argument:         *)
(* _validate_extraction, detect_installer_type, analyze_pe_structure.      *)
(* The argument is drawn from the sets below.                              *)
(***************************************************************************)
\* paths a candidate directory can hold
PathPool ==
  SectionDump \cup AppTree \cup
  { << <<".", "i", "d", "a", "t", "a">>, <<"l", "i", "b", ".", "d", "l", "l">> >>,
    << <<".", "b", "s", "s">>, << >> >>,
    << <<"d", "r", "v", ".", "s", "y", "s">> >>,
    << <<"a", ".", "t", "x", "t">> >>,
    << <<"b", ".", "i", "n", "i">> >>,
    << <<"c", ".", "c", "f", "g">> >>,
    << <<"d", ".", "d", "a", "t">> >>,
    << <<"e", ".", "T", "X", "T">> >>,
    << <<"f", ".", "t", "x", "t">> >>,
    << <<"n", "o", "t", "e", "s", ".", "m", "d">> >> }

\* a directory that does not exist has no tree
ValidateArgs ==
  { [exists |-> FALSE, tree |-> {}] } \cup
  { [exists |-> TRUE, tree |-> t] : t \in SUBSET PathPool }

\* signature strings a file holds at most
MaxMarkers == 2

Markers ==
  { "Inno Setup", "InnoSetup", "NSIS", "Nullsoft", "!insertmacro",
    "InstallShield", "WiX", "Windows Installer", "This installation package",
    "Advanced Installer" }

\* where a signature string can start: at the head of the file, where only
\* the strings of at most 12 bytes end within the first 8192 bytes, and
\* behind the first 8192 bytes
Occurrences == [m : Markers, at : { 0, 8180, 8192 }]

Apart(o1, o2) ==
  o1.at + marker_len(o1.m) <= o2.at \/ o2.at + marker_len(o2.m) <= o1.at

RECURSIVE MarkSets(_)
MarkSets(k) ==
  IF k = 0 THEN { {} }
  ELSE LET less == MarkSets(k - 1)
       IN less \cup
          UNION { { ms \cup { o } :
                      o \in { x \in Occurrences : \A y \in ms : Apart(x, y) } } :
                  ms \in less }

FileNames ==
  { <<"s", "e", "t", "u", "p", ".", "b", "i", "n">>,
    <<"p", "h", "o", "t", "o", "_", "t", "o", "o", "l", ".", "e", "x", "e">>,
    <<"M", "y", "I", "n", "s", "t", "a", "l", "l", "e", "r", ".", "E", "X", "E">>,
    <<"a", "p", "p", ".", "e", "x", "e">> }

FileSizes == { 16384, LargeFileSize, LargeFileSize + 1, 60 * 1024 * 1024 }

DetectArgs ==
  [name : FileNames, readable : BOOLEAN, marks : MarkSets(MaxMarkers),
   size : FileSizes]

\* lengths at which a file ends: inside the DOS header, inside each later
\* record of a file whose PE header is at 64, and at the ends of the records
FileLens ==
  { 0, 1, 2, 63, 64, 67, 68, 70, 80, 87, 88, 155, 156, 157, 158, 312, 351,
    352, 392 }

PeArgs ==
  [readable : BOOLEAN, len : FileLens \cup { n + 64 : n \in FileLens },
   mz : BOOLEAN, lfanew : { 64, 128 }, sig_ok : BOOLEAN,
   machine : { 34404, 332, 452, 512 }, nsec : { 0, 2 },
   optsize : { 0, 68, 69, 70, 224 }, subsys : { 1, 2, 3 },
   names : { << ".text", ".rsrc" >> }]

\* input files of the worker: the name, the signature strings and the size
\* that detect_installer_type looks at, and a header that is or is not one
\* of a PE file
GateArgs ==
  { [name |-> n, readable |-> r, marks |-> ms, size |-> sz, len |-> sz,
     mz |-> m, lfanew |-> 64, sig_ok |-> ok, machine |-> 332, nsec |-> 2,
     optsize |-> 224, subsys |-> 2, names |-> << ".text", ".rsrc" >>] :
    n \in FileNames, r \in BOOLEAN, ms \in MarkSets(1),
    sz \in { 16384, LargeFileSize + 1 }, m \in BOOLEAN, ok \in BOOLEAN }

InitCalls ==
  /\ caller = "none"
  /\ config = [k \in CfgKeys |-> "true"]
  /\ Idle
  /\ retval = << >>
  /\ \/ fn = "validate_extraction" /\ arg \in { << a >> : a \in ValidateArgs }
     \/ fn = "detect_installer_type" /\ arg \in { << a >> : a \in DetectArgs }
     \/ fn = "analyze_pe_structure" /\ arg \in { << a >> : a \in PeArgs }
     \/ fn = "runs_extraction" /\ arg \in { << a >> : a \in GateArgs \cup WorkerInputs }

call_validate_extraction ==
  /\ fn = "validate_extraction"
  /\ retval = << >>
  /\ retval' = << validate_extraction(arg[1].exists, arg[1].tree) >>
  /\ UNCHANGED << caller, config, run_no, first, fn, arg, evars, wvars >>

call_detect_installer_type ==
  /\ fn = "detect_installer_type"
  /\ retval = << >>
  /\ retval' = << detect_installer_type(arg[1]) >>
  /\ UNCHANGED << caller, config, run_no, first, fn, arg, evars, wvars >>

call_analyze_pe_structure ==
  /\ fn = "analyze_pe_structure"
  /\ retval = << >>
  /\ retval' = << analyze_pe_structure(arg[1]) >>
  /\ UNCHANGED << caller, config, run_no, first, fn, arg, evars, wvars >>

call_runs_extraction ==
  /\ fn = "runs_extraction"
  /\ retval = << >>
  /\ retval' = << runs_extraction(arg[1]) >>
  /\ UNCHANGED << caller, config, run_no, first, fn, arg, evars, wvars >>

NextCalls ==
  \/ call_runs_extraction
  \/ call_validate_extraction
  \/ call_detect_installer_type
  \/ call_analyze_pe_structure

SpecCalls == InitCalls /\ [][NextCalls]_vars


(***************************************************************************)
(* Properties                                                              *)
(***************************************************************************)
LastStarted == started[Len(started)]

Running == epc \in { "gate", "run", "validate", "cleanup", "finally" }

Accepted == \E s \in Strategies : verdict[s] = "accepted"

\* the tool of strategy s was started in this run
ToolRan(s) == exit_of[s] \in Exits \cup { "ok", "partial" }

\* C1: within one run of extract_installer, every strategy that begins finds
\* extract_dir empty: no output of an earlier attempt of the run is left.
C1_Original == dirty_start = {}

\* C2: at the moment extract_installer returns a directory, the directory is
\* the session's <temp root>/extracted and the root exists, the strategy
\* that ran last returned True, and _validate_extraction accepts the
\* contents the directory has at that moment.
C2_ReturnsValidatedDir ==
  [][ (epc = "finally" /\ epc' = "returned" /\ result' # NoResult) =>
        /\ result' = << temp_dir', "extracted" >>
        /\ temp_dir' \in disk'
        /\ started' # << >>
        /\ ret_of'[started'[Len(started')]] = "True"
        /\ verdict'[started'[Len(started')]] = "accepted"
        /\ validate_extraction(TRUE, paths(xdir')) ]_vars

\* C2 witness: extract_installer has returned its extract_dir
C2_Witness ==
  /\ epc = "returned"
  /\ result = << temp_dir, "extracted" >>
  /\ temp_dir \in disk
  /\ verdict[InnoExtract] = "accepted"

\* C3: once the validator has accepted a strategy's output, every further
\* step of the run leaves extract_dir and the list of strategies begun as
\* they are, and ends the function.
C3_StopsAtFirstSuccess ==
  [][ (Running /\ Accepted /\ engine_step) =>
        /\ xdir' = xdir
        /\ started' = started
        /\ verdict' = verdict
        /\ epc' \in { "returned", "raised" } ]_vars

\* C3 witness: 7-Zip's output was accepted while later strategies were
\* enabled, and the function returned having begun 7-Zip only
C3_Witness ==
  /\ epc = "returned"
  /\ verdict[SevenZip] = "accepted"
  /\ started = << SevenZip >>
  /\ strategy_enabled(InnoExtract, config, is_msi)
  /\ strategy_enabled(Msi, config, is_msi)

\* C4: the strategies begun in a run are in the order 7-Zip, innoextract,
\* msiexec, zip, none twice; and a strategy begins only when every earlier
\* strategy whose tool ran has been validated or cleaned up (it begins on
\* output left behind only if the validator has seen that output).
C4_Original ==
  /\ \A i, j \in 1..Len(started) : i < j => started[i] < started[j]
  /\ \A i \in 1..Len(started) :
       started[i] \in dirty_start =>
         \A j \in 1..(i - 1) : ToolRan(started[j]) => verdict[started[j]] # "none"

\* C5: after the validator rejected the output of the last strategy
\* (GenericContainer), extract_dir has been emptied when the function is
\* over, as after a rejection of any other strategy.
C5_Original ==
  (epc = "returned" /\ temp_dir \in disk /\ verdict[Universal] = "rejected")
    => xdir = {}

\* C6: a tool-backed helper whose tool timed out or exited nonzero has
\* returned False (it did not raise), and extract_installer has gone on to
\* the next strategy block.
C6_ToolFailureIsLocal ==
  \A s \in { SevenZip, InnoExtract, Msi } :
    exit_of[s] \in { "timeout", "nonzero" } =>
      /\ ret_of[s] = "False"
      /\ strat > s
      /\ epc # "idle"

\* C6 witness: 7-Zip timed out, innoextract exited nonzero, and the run went
\* on to the zip strategy
C6_Witness ==
  /\ exit_of[SevenZip] = "timeout"
  /\ exit_of[InnoExtract] = "nonzero"
  /\ Len(started) = 3
  /\ LastStarted = Universal

\* C7: a strategy whose tool is not located returns False and the run goes
\* on to the next block; when a run whose callback did not raise has
\* returned with every tool-backed strategy disabled or tool-missing, the
\* zip strategy was attempted and nothing else ran, and if the input was no
\* zip container the function returned None, leaving extract_dir empty.
C7_MissingToolIsSkipped ==
  /\ \A s \in { SevenZip, InnoExtract, Msi } :
       exit_of[s] = "missing" => (ret_of[s] = "False" /\ strat > s)
  /\ ( /\ epc = "returned"
       /\ ~cb_raised
       /\ \A s \in { SevenZip, InnoExtract, Msi } :
            exit_of[s] \in { "none", "missing" } )
     => /\ started # << >>
        /\ LastStarted = Universal
        /\ \A s \in Strategies : ToolRan(s) => s = Universal
        /\ exit_of[Universal] = "notzip" => (result = NoResult /\ xdir = {})

\* C7 witness: the three tools were missing, the input was no zip container
\* and the function returned None
C7_Witness ==
  /\ epc = "returned"
  /\ exit_of[SevenZip] = "missing"
  /\ exit_of[InnoExtract] = "missing"
  /\ exit_of[Msi] = "missing"
  /\ exit_of[Universal] = "notzip"
  /\ started = << SevenZip, InnoExtract, Msi, Universal >>
  /\ result = NoResult

\* C8: extract_installer never leaves by an exception.
C8_Original == epc # "raised"

\* C9: when a worker that created an engine whose session has a temp root
\* ends, that root does not exist.
C9_Original ==
  (wpc = "done" /\ engine /\ temp_dir # None) => temp_dir \notin disk

\* C9 as amended: when such a worker ends, on any exit path, cleanup() has
\* been called exactly once, and the root exists only if the rmtree of that
\* cleanup raised; a cleanup() called when the root does not exist changes
\* nothing.
C9_CleanupOnEveryExitPath ==
  /\ [] ( (wpc = "done" /\ engine /\ temp_dir # None) =>
            /\ cleanup_calls = 1
            /\ temp_dir \in disk => rm_failed )
  /\ [][ (client_cleanup /\ temp_dir \notin disk) =>
            UNCHANGED << disk, xdir, temp_dir, result >> ]_vars

\* C9 witness: the build step raised and the worker ended with the root
\* removed by its one cleanup() call
C9_Witness ==
  /\ wpc = "done"
  /\ engine
  /\ exit_path = "build_raised"
  /\ temp_dir # None
  /\ temp_dir \notin disk
  /\ cleanup_calls = 1

\* C10: after any sequence of extract_installer and cleanup calls on one
\* engine, at most one temp root created by the engine exists.
C10_Original == caller = "client" => Cardinality(disk) <= 1

\* C11: extract_installer does not remove the session's temp root: at the
\* moment it returns None the root exists, no step of extract_installer
\* removes a root, and a root leaves the disk only by a call of cleanup()
\* on the engine whose temp_dir it is.
C11_RootLeftToCaller ==
  /\ [][ (epc = "finally" /\ epc' = "returned" /\ result' = NoResult) =>
           (temp_dir' # None /\ temp_dir' \in disk') ]_vars
  /\ [][ engine_step => disk' = disk ]_vars
  /\ [][ \A r \in disk : r \notin disk' =>
           \/ r = temp_dir /\ (client_cleanup \/ thread_cleanup)
           \/ lingering = << r >> /\ lingering_cleanup ]_vars

\* C11 witness: a client's run returned None and the root is on disk with
\* the partial output of the run in it
C11_Witness ==
  /\ caller = "client"
  /\ epc = "returned"
  /\ result = NoResult
  /\ temp_dir \in disk
  /\ exit_of[SevenZip] = "nonzero"
  /\ xdir # {}

\* the strategy a progress message names
named_strategy(message) ==
  CASE message = "Trying 7-Zip extraction..." -> SevenZip
    [] message = "Trying Inno Setup extraction..." -> InnoExtract
    [] message = "Trying MSI extraction..." -> Msi
    [] message = "Trying universal extraction methods..." -> Universal
    [] OTHER -> 0

\* the strategies named by the notifications of the run, in emission order
NamedInOrder ==
  LET boundary == SelectSeq(progress, LAMBDA n : named_strategy(n.msg) # 0)
  IN [i \in 1..Len(boundary) |-> named_strategy(boundary[i].msg)]

\* C12: within one run, the fractions passed to the progress callback are
\* in [0,1] (0..10 tenths) and non-decreasing in emission order, and the
\* messages name the strategies in the order in which the strategies
\* execute: the strategies begun are the strategies named, in that order
\* (the one named last may not have begun yet).
C12_ProgressOrdered ==
  /\ \A i \in 1..Len(progress) : progress[i].frac \in 0..10
  /\ \A i, j \in 1..Len(progress) :
       i < j => progress[i].frac <= progress[j].frac
  /\ cb # "none" =>
       /\ Len(started) <= Len(NamedInOrder)
       /\ Len(NamedInOrder) <= Len(started) + 1
       /\ \A i \in 1..Len(started) : started[i] = NamedInOrder[i]

\* C12 witness: a run with a callback went through the four strategies and
\* ended, with five notifications
C12_Witness ==
  /\ epc = "returned"
  /\ started = << SevenZip, InnoExtract, Msi, Universal >>
  /\ Len(progress) = 5
  /\ progress[3] = notice("Trying MSI extraction...", 6)
  /\ progress[5].frac = 10

\* number of completion notifications of the run
Completions ==
  Cardinality({ i \in 1..Len(progress) : progress[i] = completion_notice })

\* C13: when extract_installer is over, on any exit path, and its callback
\* did not raise, the last notification of the run is the completion
\* notification with fraction 1.0, and it was emitted exactly once.
C13_Original ==
  (epc \in { "returned", "raised" } /\ cb # "none" /\ ~cb_raised) =>
    /\ progress # << >>
    /\ progress[Len(progress)] = completion_notice
    /\ Completions = 1

\* the call of validate_extraction has returned
Validated == fn = "validate_extraction" /\ retval # << >>

\* immediate entries of a tree whose names start with a section prefix
SectionNamed(tree) ==
  Cardinality({ n \in { p[1] : p \in tree } :
                  \E s \in pe_sections : StartsWith(n, s) })

\* the files of a tree (a path that ends in the empty name is a directory)
FilesOf(tree) == { p \in tree : p[Len(p)] # << >> }

HasExecutable(tree) ==
  \E p \in FilesOf(tree) :
    \E s \in { <<".", "e", "x", "e">>, <<".", "d", "l", "l">>, <<".", "s", "y", "s">> } : EndsWith(LowerName(p[Len(p)]), s)

\* C14: _validate_extraction returns False for every directory with more
\* than 3 immediate entries whose names start with a linker-section prefix,
\* whatever else the tree contains.
C14_SectionDumpRejected ==
  (Validated /\ arg[1].exists /\ SectionNamed(arg[1].tree) > 3)
    => retval[1] = FALSE

\* C14 witness: a directory with .text, .data, .rdata, .rsrc and an
\* executable below bin/ was rejected
C14_Witness ==
  /\ Validated
  /\ arg[1].tree = SectionDump \cup AppTree
  /\ retval[1] = FALSE

\* C15: a directory that does not exist or holds no file is rejected, and
\* a directory that holds at least one .exe, .dll or .sys file anywhere in
\* its tree is accepted.
C15_Original ==
  Validated =>
    /\ (~arg[1].exists \/ FilesOf(arg[1].tree) = {}) => retval[1] = FALSE
    /\ HasExecutable(arg[1].tree) => retval[1] = TRUE

\* C15 as amended: a directory that does not exist or holds no file is
\* rejected; a directory that holds at least one .exe, .dll or .sys file
\* anywhere in its tree and at most 3 section-named immediate entries is
\* accepted.
C15_ExecutableAccepted ==
  Validated =>
    /\ (~arg[1].exists \/ FilesOf(arg[1].tree) = {}) => retval[1] = FALSE
    /\ (HasExecutable(arg[1].tree) /\ SectionNamed(arg[1].tree) <= 3)
         => retval[1] = TRUE

\* C15 witness: a directory whose only executable lies below bin/, next to
\* three section-named entries, was accepted
C15_Witness ==
  /\ Validated
  /\ AppTree \subseteq arg[1].tree
  /\ SectionNamed(arg[1].tree) = 3
  /\ Cardinality(arg[1].tree) = 4
  /\ retval[1] = TRUE

\* the call of detect_installer_type has returned
Detected == fn = "detect_installer_type" /\ retval # << >>

NameMatches(f) ==
  \E p \in { <<"s", "e", "t", "u", "p">>, <<"i", "n", "s", "t", "a", "l", "l">>, <<"i", "n", "s", "t", "a", "l", "l", "e", "r">> } : Contains(LowerName(f.name), p)

\* the signature strings that lie within the first 8192 bytes of a file
SeenMarkers(f) == { o.m : o \in { x \in f.marks : x.at + marker_len(x.m) <= 8192 } }

\* the framework each signature string belongs to, and the order in which
\* the frameworks are tested
FrameworkOf(m) ==
  CASE m \in { "Inno Setup", "InnoSetup" } -> "Inno Setup"
    [] m \in { "NSIS", "Nullsoft", "!insertmacro" } -> "NSIS"
    [] m = "InstallShield" -> "InstallShield"
    [] m \in { "WiX", "Windows Installer" } -> "WiX"
    [] m = "This installation package" -> "Windows Installer"
    [] m = "Advanced Installer" -> "Advanced Installer"

FrameworkOrder ==
  << "Inno Setup", "NSIS", "InstallShield", "WiX", "Windows Installer",
     "Advanced Installer" >>

FirstFramework(f) ==
  LET seen == { i \in 1..Len(FrameworkOrder) :
                  \E m \in SeenMarkers(f) : FrameworkOf(m) = FrameworkOrder[i] }
  IN FrameworkOrder[CHOOSE i \in seen : \A j \in seen : i <= j]

\* C16: detect_installer_type applies its rules in this order, first match
\* wins: (1) the lowercased base name contains setup, install or installer:
\* (True, Generic Installer); (2) a framework signature lies in the first
\* 8192 bytes: (True, name of the first framework in test order); (3) the
\* size is strictly greater than 50 MiB: (True, Large Executable (Likely
\* Installer)); (4) otherwise (False, Standalone Application).  Rules 2 to
\* 4 are those of a file that can be opened.
C16_RulesInOrder ==
  Detected =>
    LET f == arg[1]
        r == retval[1]
    IN /\ NameMatches(f) => r = [is_installer |-> TRUE, type |-> "Generic Installer"]
       /\ (~NameMatches(f) /\ f.readable) =>
            IF SeenMarkers(f) # {}
            THEN r = [is_installer |-> TRUE, type |-> FirstFramework(f)]
            ELSE IF f.size > 52428800
            THEN r = [is_installer |-> TRUE,
                      type |-> "Large Executable (Likely Installer)"]
            ELSE r = [is_installer |-> FALSE, type |-> "Standalone Application"]

\* C16 witness: photo_tool.exe of exactly 50 MiB, whose only signature
\* string lies behind the first 8192 bytes, was classified standalone
C16_Witness ==
  /\ Detected
  /\ arg[1].name = <<"p", "h", "o", "t", "o", "_", "t", "o", "o", "l", ".", "e", "x", "e">>
  /\ arg[1].readable
  /\ arg[1].size = 52428800
  /\ arg[1].marks = { [m |-> "NSIS", at |-> 8192] }
  /\ retval[1] = [is_installer |-> FALSE, type |-> "Standalone Application"]

\* C17: for every file whose first 8192 bytes contain a known signature,
\* whatever its name, detect_installer_type answers isInstaller = true and
\* the name of a framework whose signature was matched.
C17_Original ==
  (Detected /\ arg[1].readable /\ SeenMarkers(arg[1]) # {}) =>
    /\ retval[1].is_installer
    /\ retval[1].type \in { FrameworkOf(m) : m \in SeenMarkers(arg[1]) }

\* C17 as amended: for every file that can be opened and whose first 8192
\* bytes contain a known signature, isInstaller is true whatever the name;
\* the family is the name of the first matched framework in test order if
\* the base name contains none of setup, install, installer, and Generic
\* Installer if it does.
C17_SignatureUnlessNamed ==
  (Detected /\ arg[1].readable /\ SeenMarkers(arg[1]) # {}) =>
    /\ retval[1].is_installer
    /\ retval[1].type = IF NameMatches(arg[1]) THEN "Generic Installer"
                        ELSE FirstFramework(arg[1])

\* C17 witness: app.exe holding both an NSIS and an Inno Setup signature in
\* its first 8192 bytes was classified Inno Setup
C17_Witness ==
  /\ Detected
  /\ arg[1].name = <<"a", "p", "p", ".", "e", "x", "e">>
  /\ arg[1].readable
  /\ arg[1].marks = { [m |-> "NSIS", at |-> 0], [m |-> "InnoSetup", at |-> 8180] }
  /\ retval[1] = [is_installer |-> TRUE, type |-> "Inno Setup"]

\* the call of analyze_pe_structure has ended
Analyzed == fn = "analyze_pe_structure" /\ retval # << >>

\* C18: for every file whose first two bytes are not 'MZ' (an empty, a
\* one-byte, an unreadable or a missing file included), analyze_pe_structure
\* returns an analysis with is_valid_pe = False and does not raise.
C18_NotMzIsInvalid ==
  (Analyzed /\ (~arg[1].readable \/ arg[1].len < 2 \/ ~arg[1].mz)) =>
    /\ ~retval[1].raised
    /\ retval[1].analysis.is_valid_pe = FALSE

\* C18 witness: the call on a file that cannot be opened has returned
C18_Witness ==
  /\ Analyzed
  /\ ~arg[1].readable
  /\ ~retval[1].raised
  /\ ~retval[1].analysis.is_valid_pe

\* the PE signature of the file was read and is right
SigVerified(f) ==
  /\ f.readable
  /\ f.len >= 64
  /\ f.mz
  /\ f.len >= f.lfanew + 4
  /\ f.sig_ok

\* one of the parse failures: short DOS header, offset beyond the file, bad
\* signature, truncated COFF header, optional header or section table
ParseFailure(f) ==
  \/ ~f.readable
  \/ f.len < 64
  \/ f.len < f.lfanew + 4
  \/ ~f.sig_ok
  \/ f.len < f.lfanew + 24
  \/ f.len < f.lfanew + 24 + f.optsize
  \/ f.len < f.lfanew + 24 + f.optsize + 40 * f.nsec

\* C19: analyze_pe_structure never raises, and any parse failure at any
\* step yields is_valid_pe = False and every other field at its default.
C19_Original ==
  (Analyzed /\ ParseFailure(arg[1])) =>
    /\ ~retval[1].raised
    /\ retval[1].analysis = default_analysis

\* C19 as amended: analyze_pe_structure never raises; is_valid_pe is True
\* exactly if the PE signature was read and is right; a failure before that
\* point yields every field at its default; a failure after it leaves
\* is_valid_pe True and what was gathered so far: the architecture of the
\* machine field or unknown, and the names of leading section headers.
C19_FailureKeepsGathered ==
  Analyzed =>
    LET f == arg[1]
        a == retval[1].analysis
    IN /\ ~retval[1].raised
       /\ a.is_valid_pe = SigVerified(f)
       /\ ~SigVerified(f) => a = default_analysis
       /\ a.architecture \in { "unknown", architecture_of(f.machine) }
       /\ Len(a.sections) <= f.nsec
       /\ a.sections = SubSeq(f.names, 1, Len(a.sections))

\* C19 witness: a file that ends inside its COFF header was reported as a
\* valid PE file for x64 with no sections
C19_Witness ==
  /\ Analyzed
  /\ SigVerified(arg[1])
  /\ arg[1].len < arg[1].lfanew + 24
  /\ arg[1].nsec = 2
  /\ retval[1].analysis.is_valid_pe
  /\ retval[1].analysis.architecture = "x64"
  /\ retval[1].analysis.sections = << >>

\* C20: when the second of two runs on the same input, with the same
\* configuration and tools that do the same thing each time, has returned,
\* its outcome is that of the first run: both failed, or both succeeded
\* through the same strategy with the same directory contents; and the
\* second session started in an empty directory that it created.
C20_SameOutcomeTwice ==
  /\ [] ( (caller = "twice" /\ run_no = 2 /\ epc = "returned") =>
             outcome = first[1] )
  /\ [][ twice_second => (xdir' = {} /\ temp_dir' \notin disk) ]_vars

\* C20 witness: both runs succeeded through innoextract after 7-Zip had
\* exited nonzero, and the root of the first run is still on disk
C20_Witness ==
  /\ caller = "twice"
  /\ run_no = 2
  /\ epc = "returned"
  /\ first[1].ok
  /\ first[1].via = InnoExtract
  /\ exit_of[SevenZip] = "nonzero"
  /\ result # NoResult
  /\ Cardinality(disk) = 2

\* the strategies begun in the run
Begun == { started[i] : i \in 1..Len(started) }

\* C21: the flags that govern a run are the values in force when the run
\* began, whatever PortableXEConfig.set does during the run: a strategy
\* that begins is enabled by the configuration of the start of the run, and
\* a run that returned None, no notification having raised, began every
\* strategy which that configuration enables.
C21_Original ==
  /\ \A s \in Begun : strategy_enabled(s, config_at_start, is_msi)
  /\ (epc = "returned" /\ result = NoResult /\ ~cb_raised) =>
       \A s \in Strategies :
         strategy_enabled(s, config_at_start, is_msi) => s \in Begun

Gated == fn = "runs_extraction" /\ retval # << >>

\* what analyze_pe_structure says of the header of a file
ValidPe(f) == analyze_pe_structure(f).analysis.is_valid_pe

\* C22: for every input whose header is not that of a valid PE file, the
\* worker runs the extraction chain on it.
C22_Original ==
  (Gated /\ ~ValidPe(arg[1])) => retval[1] = TRUE

\* C22 as amended: an invalid PE header does not suppress extraction: for an
\* input whose header is not that of a valid PE file, the worker runs the
\* extraction chain exactly when the input is classified as an installer
\* (by its name or, for a file that can be opened, by a signature in its
\* first 8192 bytes or a size above 50 MiB).
C22_InvalidPeDoesNotSuppress ==
  (Gated /\ ~ValidPe(arg[1])) =>
    LET f == arg[1]
    IN retval[1] = ( \/ NameMatches(f)
                     \/ f.readable /\ (SeenMarkers(f) # {} \/ f.size > 52428800) )

\* C22 witness: setup.bin, whose first two bytes are not MZ, is extracted
C22_Witness ==
  /\ Gated
  /\ arg[1].name = <<"s", "e", "t", "u", "p", ".", "b", "i", "n">>
  /\ ~arg[1].mz
  /\ ~ValidPe(arg[1])
  /\ retval[1] = TRUE

\* the files of a tree that count as meaningful content
Meaningful(tree) ==
  { p \in FilesOf(tree) :
      \E s \in { <<".", "e", "x", "e">>, <<".", "d", "l", "l">>, <<".", "t", "x", "t">>,
                 <<".", "i", "n", "i">>, <<".", "c", "f", "g">>, <<".", "d", "a", "t">> } :
        EndsWith(LowerName(p[Len(p)]), s) }

\* C23: for a directory that exists, is not empty and has at most 3
\* section-named immediate entries, _validate_extraction returns True
\* exactly when the tree holds at least one file whose name ends, in any
\* letter case, in .exe, .dll or .sys, or strictly more than 5 files whose
\* names end in .exe, .dll, .txt, .ini, .cfg or .dat; with exactly 5 such
\* files and no executable it returns False.
C23_ExecutableOrSixMeaningful ==
  (Validated /\ arg[1].exists /\ arg[1].tree # {} /\ SectionNamed(arg[1].tree) <= 3) =>
    retval[1] = (HasExecutable(arg[1].tree) \/ Cardinality(Meaningful(arg[1].tree)) > 5)

\* C23 witness: a directory of exactly five meaningful files, none of them
\* an executable, was rejected
C23_Witness ==
  /\ Validated
  /\ arg[1].exists
  /\ SectionNamed(arg[1].tree) <= 3
  /\ ~HasExecutable(arg[1].tree)
  /\ Cardinality(Meaningful(arg[1].tree)) = 5
  /\ retval[1] = FALSE

\* what the tool of strategy s did when it was run
BehaviourOf(s) == tool_behaviour.tool[s][1]

\* C24: a strategy backed by an external tool signals success only if the
\* tool exited with status 0 and its invocation wrote at least one entry
\* into the target directory: a tool that exits with 0 and writes nothing
\* is never reported successful.
C24_Original ==
  \A s \in { SevenZip, InnoExtract, Msi } :
    (deterministic /\ ret_of[s] = "True") =>
      /\ tool_behaviour.tool[s] # << >>
      /\ BehaviourOf(s)[1] = "exit0"
      /\ BehaviourOf(s)[2] # {}

\* C25: in the worker a failed extraction does not abort the run: when
\* extract_installer returns None the worker goes on to the build, on the
\* original input file with is_standalone = True; the build is on the
\* extracted directory with is_standalone = False exactly when
\* extract_installer returned a directory.
C25_FallsBackToInput ==
  /\ [] ( wpc = "build" =>
            /\ (source = "extracted" /\ ~is_standalone) <=>
                 (engine /\ epc = "returned" /\ result # NoResult)
            /\ ~(engine /\ epc = "returned" /\ result # NoResult) =>
                 (source = "input" /\ is_standalone) )
  /\ [][ (wpc = "extracting" /\ epc = "returned" /\ result = NoResult
            /\ wpc' # wpc) => wpc' = "build" ]_vars

\* C25 witness: every strategy of the worker's run failed and the build is
\* under way on the input file
C25_Witness ==
  /\ wpc = "build"
  /\ engine
  /\ epc = "returned"
  /\ result = NoResult
  /\ Len(started) = 4
  /\ source = "input"
  /\ is_standalone

\* C26: every run of extract_installer ends in Success (a validated
\* directory is returned) or in AllFailed (None is returned), after at most
\* four attempts, and no strategy is attempted twice in a run.
C26_Original ==
  /\ Len(started) <= 4
  /\ \A i, j \in 1..Len(started) : i < j => started[i] < started[j]
  /\ epc \in { "returned", "raised" } =>
       /\ epc = "returned"
       /\ result = NoResult \/ (result = extract_dir /\ Accepted)

\* the value of the flag that governs a tool-backed strategy
FlagOf(s) ==
  CASE s = SevenZip -> config["use_7zip"]
    [] s = InnoExtract -> config["use_innoextract"]
    [] s = Msi -> config["use_msi_extract"]

\* C27: a tool-backed strategy is attempted only if its flag reads exactly
\* 'true' (msiexec only if, in addition, the path ends in .msi); a flag
\* that is absent from the configuration counts as enabled, its default;
\* the zip strategy is attempted in every run that reaches it.
C27_Original ==
  /\ \A s \in Begun \ { Universal } :
       /\ FlagOf(s) \in { "true", Absent }
       /\ s = Msi => is_msi
  /\ (epc = "returned" /\ result = NoResult /\ ~cb_raised) =>
       /\ \A s \in { SevenZip, InnoExtract } : FlagOf(s) = Absent => s \in Begun
       /\ (FlagOf(Msi) = Absent /\ is_msi) => Msi \in Begun
       /\ Universal \in Begun

\* C28: in the worker the session's temp root is not removed while the
\* build step consumes the extracted directory: while the build is under
\* way on the extracted directory no cleanup() of this worker has been
\* called, the root exists and no step removes it or changes the directory;
\* cleanup() is called only in the finally clause, after build_portable_app
\* returned or raised (or was never reached).
C28_CleanupAfterBuild ==
  /\ [] ( (wpc = "build" /\ source = "extracted") =>
            /\ cleanup_calls = 0
            /\ temp_dir \in disk
            /\ xdir # {} )
  /\ [][ (wpc = "build" /\ source = "extracted") =>
            (temp_dir \in disk' /\ xdir' = xdir) ]_vars
  /\ [][ cleanup_calls' > cleanup_calls =>
            /\ wpc = "cleanup"
            /\ exit_path \in { "built", "build_raised", "extract_raised" } ]_vars

\* C28 witness: the build on the extracted directory returned, and the
\* worker's cleanup() then removed the root
C28_Witness ==
  /\ wpc = "done"
  /\ source = "extracted"
  /\ exit_path = "built"
  /\ cleanup_calls = 1
  /\ temp_dir \notin disk

\* the workers that have not ended
WorkersAlive ==
  (IF caller = "worker" /\ wpc # "done" THEN 1 ELSE 0) + Len(lingering)

\* C29: at most one worker is alive at any time, and the create button is
\* enabled only when the worker has ended, its cleanup included.
C29_Original ==
  /\ WorkersAlive <= 1
  /\ button = "normal" => wpc = "done"

====
